---- MODULE Spec2Model ----
(***************************************************************************)
(* upb/base/internal/log2.h: upb_Log2Ceiling, upb_Log2CeilingSize,         *)
(* upb_Log2CTypeSize and upb_Log2FieldTypeSize, as calls made by one or    *)
(* more execution contexts against one build of the header.  A build is    *)
(* fixed by two preprocessor facts: whether __GNUC__ is defined (fast path *)
(* or iterative fallback) and the pointer width UPB_SIZE selects by.       *)
(***************************************************************************)
EXTENDS Integers, Sequences, FiniteSets, TLC

\* ---------------------------------------------------------------- bounds
\* Number of execution contexts that may be inside the header at once.
NumProcs == 2
\* Largest value of lg2 the model follows in a fallback loop that no longer
\* terminates (the loop itself would go on counting).
MaxLg2 == 33

\* ------------------------------------------------------- `int` arithmetic
\* Width of int and of the word __builtin_clz counts in.
IntBits == 32
INT_MAX == (2^(IntBits - 2) - 1) * 2 + 1
INT_MIN == (-INT_MAX) - 1
\* Largest power of two an int holds.
MaxPow2 == 2^(IntBits - 2)

\* `1 << n` on int is defined only when 2^n is representable.
ShiftDefined(n) == n >= 0 /\ n <= IntBits - 2

\* The values a build can produce for `1 << n`.  Defined shifts give 2^n.
\* 1 << 31 is signed overflow: two's complement hardware leaves INT_MIN.
\* A count of IntBits or more is undefined as well: the count is masked to
\* five bits (x86) or the bit is shifted out (ARM).
Shl1(n) ==
  IF ShiftDefined(n) THEN {2^n}
  ELSE IF n = IntBits - 1 THEN {INT_MIN}
  ELSE {0} \cup (IF n % IntBits = IntBits - 1 THEN {INT_MIN}
                 ELSE {2^(n % IntBits)})

\* Number of significant bits of w >= 0.
RECURSIVE BitLen(_)
BitLen(w) == IF w = 0 THEN 0 ELSE 1 + BitLen(w \div 2)

\* __builtin_clz on a 32-bit word w, 0 < w <= INT_MAX.
builtin_clz(w) == IntBits - BitLen(w)

\* ------------------------------------------------------------ enumerations
\* upb_CType (upb/base/descriptor_constants.h), one-based.
kUpb_CType_Bool == 1
kUpb_CType_Float == 2
kUpb_CType_Int32 == 3
kUpb_CType_UInt32 == 4
kUpb_CType_Enum == 5
kUpb_CType_Message == 6
kUpb_CType_Double == 7
kUpb_CType_Int64 == 8
kUpb_CType_UInt64 == 9
kUpb_CType_String == 10
kUpb_CType_Bytes == 11

upb_CType ==
  {kUpb_CType_Bool, kUpb_CType_Float, kUpb_CType_Int32, kUpb_CType_UInt32,
   kUpb_CType_Enum, kUpb_CType_Message, kUpb_CType_Double, kUpb_CType_Int64,
   kUpb_CType_UInt64, kUpb_CType_String, kUpb_CType_Bytes}

\* upb_FieldType (upb/base/descriptor_constants.h), one-based.
kUpb_FieldType_Double == 1
kUpb_FieldType_Float == 2
kUpb_FieldType_Int64 == 3
kUpb_FieldType_UInt64 == 4
kUpb_FieldType_Int32 == 5
kUpb_FieldType_Fixed64 == 6
kUpb_FieldType_Fixed32 == 7
kUpb_FieldType_Bool == 8
kUpb_FieldType_String == 9
kUpb_FieldType_Group == 10
kUpb_FieldType_Message == 11
kUpb_FieldType_Bytes == 12
kUpb_FieldType_UInt32 == 13
kUpb_FieldType_Enum == 14
kUpb_FieldType_SFixed32 == 15
kUpb_FieldType_SFixed64 == 16
kUpb_FieldType_SInt32 == 17
kUpb_FieldType_SInt64 == 18

upb_FieldType ==
  {kUpb_FieldType_Double, kUpb_FieldType_Float, kUpb_FieldType_Int64,
   kUpb_FieldType_UInt64, kUpb_FieldType_Int32, kUpb_FieldType_Fixed64,
   kUpb_FieldType_Fixed32, kUpb_FieldType_Bool, kUpb_FieldType_String,
   kUpb_FieldType_Group, kUpb_FieldType_Message, kUpb_FieldType_Bytes,
   kUpb_FieldType_UInt32, kUpb_FieldType_Enum, kUpb_FieldType_SFixed32,
   kUpb_FieldType_SFixed64, kUpb_FieldType_SInt32, kUpb_FieldType_SInt64}

\* ------------------------------------------------------------------ state
VARIABLES
  ptr_size,        \* the build: sizeof(void*), 4 or 8
  gnuc,            \* the build: TRUE when __GNUC__ is defined
  ctype_size,      \* the static table `size` of upb_Log2CTypeSize
  fieldtype_size,  \* the static table `size` of upb_Log2FieldTypeSize
  op,              \* per context: the function it called
  arg,             \* per context: the argument of the call
  pc,              \* per context: where it is in the call
  lg2,             \* per frame: the fallback loop's counter
  ret,             \* per context: the value returned so far
  ub               \* per context: the call has executed undefined behaviour

vars == <<ptr_size, gnuc, ctype_size, fieldtype_size, op, arg, pc, lg2, ret, ub>>

Procs == 1 .. NumProcs

\* UPB_SIZE(size32, size64) of upb/port/def.inc.
UPB_SIZE(size32, size64) == IF ptr_size = 4 THEN size32 ELSE size64

\* ----------------------------------------------------------------- tables
\* Faulty variant of the CType table: the initialiser lacks its last entry.
upb_Log2CTypeSize_size_NoBytes ==
  << 0, 2, 2, 2, 2, UPB_SIZE(2, 3), 3, 3, 3, UPB_SIZE(3, 4) >>

\* Faulty variant of the CType table: String sized as a bare pointer.
upb_Log2CTypeSize_size_StringAsPointer ==
  << 0, 2, 2, 2, 2, UPB_SIZE(2, 3), 3, 3, 3, UPB_SIZE(2, 3), UPB_SIZE(3, 4) >>

\* static const size_t size[] of upb_Log2CTypeSize.
upb_Log2CTypeSize_size ==
  << 0,               \* kUpb_CType_Bool
     2,               \* kUpb_CType_Float
     2,               \* kUpb_CType_Int32
     2,               \* kUpb_CType_UInt32
     2,               \* kUpb_CType_Enum
     UPB_SIZE(2, 3),  \* kUpb_CType_Message
     3,               \* kUpb_CType_Double
     3,               \* kUpb_CType_Int64
     3,               \* kUpb_CType_UInt64
     UPB_SIZE(3, 4),  \* kUpb_CType_String
     UPB_SIZE(3, 4)   \* kUpb_CType_Bytes
  >>

\* Faulty variant of the FieldType table: Fixed64 given Fixed32's exponent.
upb_Log2FieldTypeSize_size_Fixed64As32 ==
  << 3, 2, 3, 3, 2, 2, 2, 0, UPB_SIZE(3, 4), UPB_SIZE(2, 3), UPB_SIZE(2, 3),
     UPB_SIZE(3, 4), 2, 2, 2, 3, 2, 3 >>

\* Faulty variant of the FieldType table: Group sized as a string view.
upb_Log2FieldTypeSize_size_GroupAsString ==
  << 3, 2, 3, 3, 2, 3, 2, 0, UPB_SIZE(3, 4), UPB_SIZE(3, 4), UPB_SIZE(2, 3),
     UPB_SIZE(3, 4), 2, 2, 2, 3, 2, 3 >>

\* static const size_t size[] of upb_Log2FieldTypeSize.
upb_Log2FieldTypeSize_size ==
  << 3,               \* kUpb_FieldType_Double
     2,               \* kUpb_FieldType_Float
     3,               \* kUpb_FieldType_Int64
     3,               \* kUpb_FieldType_UInt64
     2,               \* kUpb_FieldType_Int32
     3,               \* kUpb_FieldType_Fixed64
     2,               \* kUpb_FieldType_Fixed32
     0,               \* kUpb_FieldType_Bool
     UPB_SIZE(3, 4),  \* kUpb_FieldType_String
     UPB_SIZE(2, 3),  \* kUpb_FieldType_Group
     UPB_SIZE(2, 3),  \* kUpb_FieldType_Message
     UPB_SIZE(3, 4),  \* kUpb_FieldType_Bytes
     2,               \* kUpb_FieldType_UInt32
     2,               \* kUpb_FieldType_Enum
     2,               \* kUpb_FieldType_SFixed32
     3,               \* kUpb_FieldType_SFixed64
     2,               \* kUpb_FieldType_SInt32
     3                \* kUpb_FieldType_SInt64
  >>

\* size[i] on a zero-based C array held as a sequence.
InBounds(size, i) == i + 1 \in DOMAIN size
\* The values the read size[i] can give: the entry, or whatever lies past the
\* table when the index is outside it.
ArrayRead(size, i) == IF InBounds(size, i) THEN {size[i + 1]} ELSE 0 .. 4

\* --------------------------------------------------------- upb_Log2Ceiling
\* Faulty variant of the fast path: the count taken of x, not of x - 1.
upb_Log2Ceiling_clz_NoDecrement(x) == IntBits - builtin_clz(x)

\* `32 - __builtin_clz(x - 1)`, reached only with x > 1.
upb_Log2Ceiling_clz(x) == IntBits - builtin_clz(x - 1)

\* Faulty variant of the loop condition: <= for <.
LoopCond_LessEq(v, x) == v <= x

\* The fallback loop's condition, `(1 << lg2) < x`, on the shift's value v.
LoopCond(v, x) == v < x

\* Faulty variant of lg2's storage: `static int lg2`, one for all calls.
Frame_Static(p) == 1

\* `int lg2` is an automatic variable: each call has it in its own frame.
Frame(p) == p

\* Faulty variant of the shift: `2 << upb_Log2Ceiling(x)`.
upb_Log2CeilingSize_shift_TwoShl(n) == Shl1(n + 1)

\* `1 << upb_Log2Ceiling(x)` of upb_Log2CeilingSize, on the inner call's result.
upb_Log2CeilingSize_shift(n) == Shl1(n)

\* The whole of upb_Log2Ceiling as a __GNUC__ build computes it.
upb_Log2Ceiling_fast(x) == IF x <= 1 THEN 0 ELSE upb_Log2Ceiling_clz(x)

\* The fallback loop run from lg2 = n to its exit, for x <= 2^30, where every
\* shift it evaluates is defined.
RECURSIVE FallbackRun(_, _)
FallbackRun(x, n) == IF 2^n < x THEN FallbackRun(x, n + 1) ELSE n

\* The whole of upb_Log2Ceiling as a build without __GNUC__ computes it,
\* for x <= 2^30.
upb_Log2Ceiling_fallback(x) == IF x <= 1 THEN 0 ELSE FallbackRun(x, 0)

\* --------------------------------------------------------------- the calls
Idle(p) == pc[p] = "idle"

\* A caller enters upb_Log2Ceiling(x).
CallLog2Ceiling(p, x) ==
  /\ Idle(p)
  /\ op' = [op EXCEPT ![p] = "upb_Log2Ceiling"]
  /\ arg' = [arg EXCEPT ![p] = x]
  /\ pc' = [pc EXCEPT ![p] = "ceil"]
  /\ UNCHANGED <<ptr_size, gnuc, ctype_size, fieldtype_size, lg2, ret, ub>>

\* A caller enters upb_Log2CeilingSize(x), which calls upb_Log2Ceiling(x).
CallLog2CeilingSize(p, x) ==
  /\ Idle(p)
  /\ op' = [op EXCEPT ![p] = "upb_Log2CeilingSize"]
  /\ arg' = [arg EXCEPT ![p] = x]
  /\ pc' = [pc EXCEPT ![p] = "ceil"]
  /\ UNCHANGED <<ptr_size, gnuc, ctype_size, fieldtype_size, lg2, ret, ub>>

\* Where upb_Log2Ceiling returns to.
AfterCeiling(p) == IF op[p] = "upb_Log2CeilingSize" THEN "shift" ELSE "done"

\* if (x <= 1) return 0;
Clamp(p) ==
  /\ pc[p] = "ceil"
  /\ arg[p] <= 1
  /\ ret' = [ret EXCEPT ![p] = 0]
  /\ pc' = [pc EXCEPT ![p] = AfterCeiling(p)]
  /\ UNCHANGED <<ptr_size, gnuc, ctype_size, fieldtype_size, op, arg, lg2, ub>>

\* #ifdef __GNUC__: return 32 - __builtin_clz(x - 1);
FastPath(p) ==
  /\ pc[p] = "ceil"
  /\ arg[p] > 1
  /\ gnuc
  /\ ret' = [ret EXCEPT ![p] = upb_Log2Ceiling_clz(arg[p])]
  /\ pc' = [pc EXCEPT ![p] = AfterCeiling(p)]
  /\ UNCHANGED <<ptr_size, gnuc, ctype_size, fieldtype_size, op, arg, lg2, ub>>

\* #else: int lg2 = 0;
LoopInit(p) ==
  /\ pc[p] = "ceil"
  /\ arg[p] > 1
  /\ ~gnuc
  /\ lg2' = [lg2 EXCEPT ![Frame(p)] = 0]
  /\ pc' = [pc EXCEPT ![p] = "loop"]
  /\ UNCHANGED <<ptr_size, gnuc, ctype_size, fieldtype_size, op, arg, ret, ub>>

\* while ((1 << lg2) < x) lg2++;   the condition holds
LoopIncr(p) ==
  /\ pc[p] = "loop"
  /\ lg2[Frame(p)] < MaxLg2
  /\ \E v \in Shl1(lg2[Frame(p)]) : LoopCond(v, arg[p])
  /\ lg2' = [lg2 EXCEPT ![Frame(p)] = @ + 1]
  /\ ub' = [ub EXCEPT ![p] = @ \/ ~ShiftDefined(lg2[Frame(p)])]
  /\ UNCHANGED <<ptr_size, gnuc, ctype_size, fieldtype_size, op, arg, pc, ret>>

\* while ((1 << lg2) < x) lg2++;   the condition fails: return lg2;
LoopExit(p) ==
  /\ pc[p] = "loop"
  /\ \E v \in Shl1(lg2[Frame(p)]) : ~LoopCond(v, arg[p])
  /\ ret' = [ret EXCEPT ![p] = lg2[Frame(p)]]
  /\ ub' = [ub EXCEPT ![p] = @ \/ ~ShiftDefined(lg2[Frame(p)])]
  /\ pc' = [pc EXCEPT ![p] = AfterCeiling(p)]
  /\ UNCHANGED <<ptr_size, gnuc, ctype_size, fieldtype_size, op, arg, lg2>>

\* upb_Log2CeilingSize: return 1 << upb_Log2Ceiling(x);
Shift(p) ==
  /\ pc[p] = "shift"
  /\ \E v \in upb_Log2CeilingSize_shift(ret[p]) :
       ret' = [ret EXCEPT ![p] = v]
  /\ ub' = [ub EXCEPT ![p] = @ \/ ~ShiftDefined(ret[p])]
  /\ pc' = [pc EXCEPT ![p] = "done"]
  /\ UNCHANGED <<ptr_size, gnuc, ctype_size, fieldtype_size, op, arg, lg2>>

\* upb_Log2CTypeSize(c_type): return size[c_type - 1];
upb_Log2CTypeSize(p, c_type) ==
  /\ Idle(p)
  /\ op' = [op EXCEPT ![p] = "upb_Log2CTypeSize"]
  /\ arg' = [arg EXCEPT ![p] = c_type]
  /\ \E v \in ArrayRead(ctype_size, c_type - 1) :
       ret' = [ret EXCEPT ![p] = v]
  /\ ub' = [ub EXCEPT ![p] = ~InBounds(ctype_size, c_type - 1)]
  /\ pc' = [pc EXCEPT ![p] = "done"]
  /\ UNCHANGED <<ptr_size, gnuc, ctype_size, fieldtype_size, lg2>>

\* upb_Log2FieldTypeSize(field_type): return size[field_type - 1];
upb_Log2FieldTypeSize(p, field_type) ==
  /\ Idle(p)
  /\ op' = [op EXCEPT ![p] = "upb_Log2FieldTypeSize"]
  /\ arg' = [arg EXCEPT ![p] = field_type]
  /\ \E v \in ArrayRead(fieldtype_size, field_type - 1) :
       ret' = [ret EXCEPT ![p] = v]
  /\ ub' = [ub EXCEPT ![p] = ~InBounds(fieldtype_size, field_type - 1)]
  /\ pc' = [pc EXCEPT ![p] = "done"]
  /\ UNCHANGED <<ptr_size, gnuc, ctype_size, fieldtype_size, lg2>>

\* The caller takes the returned value; the call's own frame (and the lg2 in
\* it) is gone.
Resume(p) ==
  /\ pc[p] = "done"
  /\ pc' = [pc EXCEPT ![p] = "idle"]
  /\ op' = [op EXCEPT ![p] = "none"]
  /\ arg' = [arg EXCEPT ![p] = 0]
  /\ ret' = [ret EXCEPT ![p] = 0]
  /\ ub' = [ub EXCEPT ![p] = FALSE]
  /\ lg2' = [lg2 EXCEPT ![p] = 0]
  /\ UNCHANGED <<ptr_size, gnuc, ctype_size, fieldtype_size>>

\* ---------------------------------------------------------- specifications
Init ==
  /\ ptr_size \in {4, 8}
  /\ gnuc \in BOOLEAN
  /\ ctype_size = upb_Log2CTypeSize_size
  /\ fieldtype_size = upb_Log2FieldTypeSize_size
  /\ op = [p \in Procs |-> "none"]
  /\ arg = [p \in Procs |-> 0]
  /\ pc = [p \in Procs |-> "idle"]
  /\ lg2 = [p \in Procs |-> 0]
  /\ ret = [p \in Procs |-> 0]
  /\ ub = [p \in Procs |-> FALSE]

\* Arguments of the sequential specification: every int around a power of
\* two, both ends of int, zero and negatives.
IntInputs ==
  {INT_MIN, -1024, -5, -1, 0, 1, INT_MAX}
    \cup {2^k + d : k \in 1 .. IntBits - 2, d \in {-1, 0, 1}}

\* One execution context, every argument.
Next ==
  \/ \E x \in IntInputs : CallLog2Ceiling(1, x)
  \/ \E x \in IntInputs : CallLog2CeilingSize(1, x)
  \/ \E c \in upb_CType : upb_Log2CTypeSize(1, c)
  \/ \E f \in upb_FieldType : upb_Log2FieldTypeSize(1, f)
  \/ Clamp(1)
  \/ FastPath(1)
  \/ LoopInit(1)
  \/ LoopIncr(1)
  \/ LoopExit(1)
  \/ Shift(1)
  \/ Resume(1)

Spec == Init /\ [][Next]_vars

\* Arguments of the concurrent specification.
ConcInts == {0, 3, 5}
ConcCTypes == {kUpb_CType_Message, kUpb_CType_Bytes}
ConcFieldTypes == {kUpb_FieldType_Bool, kUpb_FieldType_String}

\* Every execution context, calls interleaved at every step.
NextConc ==
  \E p \in Procs :
    \/ \E x \in ConcInts : CallLog2Ceiling(p, x)
    \/ \E x \in ConcInts : CallLog2CeilingSize(p, x)
    \/ \E c \in ConcCTypes : upb_Log2CTypeSize(p, c)
    \/ \E f \in ConcFieldTypes : upb_Log2FieldTypeSize(p, f)
    \/ Clamp(p)
    \/ FastPath(p)
    \/ LoopInit(p)
    \/ LoopIncr(p)
    \/ LoopExit(p)
    \/ Shift(p)
    \/ Resume(p)

SpecConc == Init /\ [][NextConc]_vars

\* ------------------------------------------------- calls executed alone
\* upb_Log2Ceiling(x) executed alone on this build, x <= 2^30.
Log2CeilingAlone(x) ==
  IF gnuc THEN upb_Log2Ceiling_fast(x) ELSE upb_Log2Ceiling_fallback(x)

\* The value of the call o(a) executed alone on this build.
CallAlone(o, a) ==
  CASE o = "upb_Log2Ceiling" -> Log2CeilingAlone(a)
    [] o = "upb_Log2CeilingSize" -> 2^Log2CeilingAlone(a)
    [] o = "upb_Log2CTypeSize" -> upb_Log2CTypeSize_size[(a - 1) + 1]
    [] o = "upb_Log2FieldTypeSize" -> upb_Log2FieldTypeSize_size[(a - 1) + 1]

Returned(p, o) == op[p] = o /\ pc[p] = "done"

\* ----------------------------------------------------------------- claims

\* C1: for every x <= 2^30 (0 and negatives included) upb_Log2Ceiling(x)
\* returns the smallest n >= 0 with 2^n >= x: 0 when x <= 1, and for x in
\* [2, 2^30] a value n with 2^n >= x and 2^(n-1) < x.
C1_Log2CeilingIsCeilLog2 ==
  \A p \in Procs :
    (Returned(p, "upb_Log2Ceiling") /\ arg[p] <= MaxPow2) =>
      /\ ~ub[p]
      /\ ret[p] \in 0 .. IntBits - 2
      /\ 2^ret[p] >= arg[p]
      /\ \A m \in 0 .. ret[p] - 1 : 2^m < arg[p]
      /\ (arg[p] <= 1 => ret[p] = 0)
      /\ (arg[p] >= 2 => 2^(ret[p] - 1) < arg[p])

\* C1 witness: the fallback build has returned 30 for x = 2^30.
C1_Witness ==
  \E p \in Procs :
    /\ Returned(p, "upb_Log2Ceiling")
    /\ ~gnuc
    /\ arg[p] = MaxPow2
    /\ ret[p] = IntBits - 2

\* C2: for every x <= 2^30, upb_Log2CeilingSize(x) equals
\* 2^upb_Log2Ceiling(x) and is the smallest power of two >= x; every x <= 1
\* maps to 1.
C2_CeilingSizeIsSmallestPow2 ==
  \A p \in Procs :
    (Returned(p, "upb_Log2CeilingSize") /\ arg[p] <= MaxPow2) =>
      /\ ~ub[p]
      /\ ret[p] = 2^Log2CeilingAlone(arg[p])
      /\ \E n \in 0 .. IntBits - 2 : ret[p] = 2^n
      /\ ret[p] >= arg[p]
      /\ \A n \in 0 .. IntBits - 2 : 2^n >= arg[p] => ret[p] <= 2^n
      /\ (arg[p] <= 1 => ret[p] = 1)

\* C2 witness: upb_Log2CeilingSize(1025) has returned 2048.
C2_Witness ==
  \E p \in Procs :
    /\ Returned(p, "upb_Log2CeilingSize")
    /\ arg[p] = 1025
    /\ ret[p] = 2048

\* C3 (as claimed): on every int x the iterative fallback returns exactly
\* what the fast path returns.  The fallback returns its counter, which only
\* grows: it returns the fast path's value only if the counter never passes
\* that value, every shift it evaluates is defined, and the value it returns
\* is that value.
C3_FallbackEqualsFastPath ==
  \A p \in Procs :
    ~gnuc =>
      /\ pc[p] = "loop" =>
           /\ lg2[Frame(p)] <= upb_Log2Ceiling_fast(arg[p])
           /\ ~ub[p]
      /\ Returned(p, "upb_Log2Ceiling") =>
           /\ ret[p] = upb_Log2Ceiling_fast(arg[p])
           /\ ~ub[p]

\* C4: the CType table has exactly 11 entries and the FieldType table
\* exactly 18; for every declared enumerator the index ordinal - 1 lies
\* inside the table, distinct enumerators read distinct slots, no slot is
\* left unused, and no lookup of a declared enumerator reads outside.
C4_TablesMatchEnumerations ==
  /\ Len(ctype_size) = 11
  /\ Len(fieldtype_size) = 18
  /\ \A c \in upb_CType : InBounds(ctype_size, c - 1)
  /\ \A f \in upb_FieldType : InBounds(fieldtype_size, f - 1)
  /\ Cardinality({c - 1 : c \in upb_CType}) = Cardinality(upb_CType)
  /\ Cardinality({f - 1 : f \in upb_FieldType}) = Cardinality(upb_FieldType)
  /\ {(c - 1) + 1 : c \in upb_CType} = DOMAIN ctype_size
  /\ {(f - 1) + 1 : f \in upb_FieldType} = DOMAIN fieldtype_size
  /\ \A p \in Procs :
       (Returned(p, "upb_Log2CTypeSize") \/ Returned(p, "upb_Log2FieldTypeSize"))
         => ~ub[p]

\* C4 witness: the last enumerator of each table has been looked up.
C4_Witness ==
  \E p \in Procs :
    /\ Returned(p, "upb_Log2CTypeSize")
    /\ arg[p] = kUpb_CType_Bytes
    /\ ~ub[p]

\* C5: whatever the pointer width, upb_Log2FieldTypeSize gives Double=3,
\* Float=2, Bool=0, Fixed32=2, Fixed64=3 and upb_Log2CTypeSize gives Bool=0,
\* Double=3, Float=2; every non-reference enumerator of both tables has an
\* exponent in {0, 2, 3}.
C5_FixedWidthExponents ==
  \A p \in Procs :
    /\ Returned(p, "upb_Log2FieldTypeSize") =>
         /\ (arg[p] = kUpb_FieldType_Double => ret[p] = 3)
         /\ (arg[p] = kUpb_FieldType_Float => ret[p] = 2)
         /\ (arg[p] = kUpb_FieldType_Bool => ret[p] = 0)
         /\ (arg[p] = kUpb_FieldType_Fixed32 => ret[p] = 2)
         /\ (arg[p] = kUpb_FieldType_Fixed64 => ret[p] = 3)
         /\ (arg[p] \notin {kUpb_FieldType_String, kUpb_FieldType_Group,
                            kUpb_FieldType_Message, kUpb_FieldType_Bytes}
               => ret[p] \in {0, 2, 3})
    /\ Returned(p, "upb_Log2CTypeSize") =>
         /\ (arg[p] = kUpb_CType_Bool => ret[p] = 0)
         /\ (arg[p] = kUpb_CType_Double => ret[p] = 3)
         /\ (arg[p] = kUpb_CType_Float => ret[p] = 2)
         /\ (arg[p] \notin {kUpb_CType_Message, kUpb_CType_String,
                            kUpb_CType_Bytes}
               => ret[p] \in {0, 2, 3})

\* C5 witness: a wide-pointer build has returned 3 for Fixed64.
C5_Witness ==
  \E p \in Procs :
    /\ Returned(p, "upb_Log2FieldTypeSize")
    /\ arg[p] = kUpb_FieldType_Fixed64
    /\ ret[p] = 3
    /\ ptr_size = 8

\* C6: on a 4-byte-reference build upb_Log2CTypeSize(Message) = 2 and
\* upb_Log2CTypeSize(String) = 3, on an 8-byte-reference build 3 and 4; in
\* both builds the FieldType entries for Message/Group and String/Bytes
\* equal the CType entries for Message and String/Bytes.
C6_ReferenceExponentsByPointerWidth ==
  \A p \in Procs :
    /\ Returned(p, "upb_Log2CTypeSize") =>
         /\ (arg[p] = kUpb_CType_Message =>
               ret[p] = IF ptr_size = 4 THEN 2 ELSE 3)
         /\ (arg[p] = kUpb_CType_String =>
               ret[p] = IF ptr_size = 4 THEN 3 ELSE 4)
    /\ Returned(p, "upb_Log2FieldTypeSize") =>
         /\ (arg[p] \in {kUpb_FieldType_Message, kUpb_FieldType_Group} =>
               ret[p] = ctype_size[(kUpb_CType_Message - 1) + 1])
         /\ (arg[p] = kUpb_FieldType_String =>
               ret[p] = ctype_size[(kUpb_CType_String - 1) + 1])
         /\ (arg[p] = kUpb_FieldType_Bytes =>
               ret[p] = ctype_size[(kUpb_CType_Bytes - 1) + 1])

\* C6 witness: a 4-byte-reference build has returned 2 for a Group field.
C6_Witness ==
  \E p \in Procs :
    /\ Returned(p, "upb_Log2FieldTypeSize")
    /\ arg[p] = kUpb_FieldType_Group
    /\ ret[p] = 2
    /\ ptr_size = 4

\* C7 (as claimed): on a narrow-pointer build Message, String and Bytes all
\* have exponent 2 in upb_Log2CTypeSize; on a wide-pointer build each has
\* exponent 3 or 4.
C7_ReferenceCategoriesAllPointerSized ==
  \A p \in Procs :
    (Returned(p, "upb_Log2CTypeSize")
       /\ arg[p] \in {kUpb_CType_Message, kUpb_CType_String, kUpb_CType_Bytes})
      => /\ (ptr_size = 4 => ret[p] = 2)
         /\ (ptr_size = 8 => ret[p] \in {3, 4})

\* C7 (amended): on a narrow-pointer build Message has exponent 2 and String
\* and Bytes have exponent 3 in upb_Log2CTypeSize; on a wide-pointer build
\* each of the three has exponent 3 or 4.
C7_ReferenceCategoriesAmended ==
  \A p \in Procs :
    (Returned(p, "upb_Log2CTypeSize")
       /\ arg[p] \in {kUpb_CType_Message, kUpb_CType_String, kUpb_CType_Bytes})
      => /\ (ptr_size = 4 /\ arg[p] = kUpb_CType_Message => ret[p] = 2)
         /\ (ptr_size = 4 /\ arg[p] # kUpb_CType_Message => ret[p] = 3)
         /\ (ptr_size = 8 => ret[p] \in {3, 4})

\* C7 witness: a narrow-pointer build has returned 3 for String.
C7_Witness ==
  \E p \in Procs :
    /\ Returned(p, "upb_Log2CTypeSize")
    /\ arg[p] = kUpb_CType_String
    /\ ptr_size = 4
    /\ ret[p] = 3

\* C8 (as claimed): for every int x the fallback loop stops after at most 31
\* increments, lg2 never reaching a shift count of 32 or more, and every
\* shift it evaluates being a 32-bit signed value.
C8_FallbackLoopWithin31 ==
  \A p \in Procs :
    pc[p] = "loop" => (lg2[Frame(p)] < IntBits /\ ~ub[p])

\* C9: in every interleaving of concurrent calls each call returns the value
\* the same call returns executed alone with the same argument, and no call
\* changes either table.
C9_CallsShareNoState ==
  /\ [](\A p \in Procs :
          pc[p] = "done" => (~ub[p] /\ ret[p] = CallAlone(op[p], arg[p])))
  /\ [][ /\ ctype_size' = ctype_size
         /\ fieldtype_size' = fieldtype_size ]_vars

\* C9 witness: one context has returned 3 from upb_Log2Ceiling(5) while
\* another is half way through its own fallback loop.
C9_Witness ==
  \E p, q \in Procs :
    /\ p # q
    /\ Returned(p, "upb_Log2Ceiling")
    /\ arg[p] = 5
    /\ ret[p] = 3
    /\ pc[q] = "loop"
    /\ lg2[Frame(q)] = 1

\* C10 (as claimed): for every int x the shift 1 << upb_Log2Ceiling(x) of
\* upb_Log2CeilingSize does not overflow: the value returned lies in
\* [1, 2^31 - 1] and is >= x, x in (2^30, 2^31 - 1] included.
C10_ShiftNeverOverflows ==
  \A p \in Procs :
    Returned(p, "upb_Log2CeilingSize") =>
      /\ ~ub[p]
      /\ ret[p] >= 1
      /\ ret[p] <= INT_MAX
      /\ ret[p] >= arg[p]

\* C10 (amended): for every x <= 2^30 the shift does not overflow: the value
\* returned lies in [1, 2^31 - 1] and is >= x.  For x in (2^30, 2^31 - 1]
\* the fast path's upb_Log2Ceiling(x) is 31 and the shift 1 << 31 overflows.
C10_ShiftWithinIntUpTo2Pow30 ==
  \A p \in Procs :
    Returned(p, "upb_Log2CeilingSize") =>
      /\ arg[p] <= MaxPow2 =>
           /\ ~ub[p]
           /\ ret[p] >= 1
           /\ ret[p] <= INT_MAX
           /\ ret[p] >= arg[p]
      /\ (arg[p] > MaxPow2 /\ gnuc) => ub[p]

\* C10 witness: upb_Log2CeilingSize(2^30) has returned 2^30.
C10_Witness ==
  \E p \in Procs :
    /\ Returned(p, "upb_Log2CeilingSize")
    /\ arg[p] = MaxPow2
    /\ ret[p] = MaxPow2

====
